---- MODULE Spec2Model ----
(***************************************************************************)
(* Model of lib/prerequisite.js: the pre-publish task list.  The module    *)
(* builds a closure (newVersion, tagPrefix, isExternalRegistry) and seven  *)
(* tasks that a Listr instance runs in declaration order, stopping at the  *)
(* first task whose promise rejects (Listr's default exitOnError).         *)
(*                                                                         *)
(* One step of the model is one turn of the event loop: a task being       *)
(* started by the runner, or an external command (or the ping timer)       *)
(* settling together with every promise reaction that follows from it.     *)
(***************************************************************************)
EXTENDS Integers, Sequences, FiniteSets, TLC

VARIABLES
  cfg,         \* input, pkg, opts, process.env, process.version: never written
  newVersion,  \* `let newVersion = null`
  tagPrefix,   \* `let tagPrefix = 'v'`
  cur,         \* index of the task the runner is at, NumChecks + 1 past the end
  pc,          \* "gate", the command the running task waits for, or "done"
  outcome,     \* how the promise of the run settled
  inflight,    \* commands spawned and not yet settled
  timerArmed,  \* the timer of pTimeout is pending
  username,    \* the value `npm whoami` resolved to
  lookupTag,   \* the tag handed to `git rev-parse`
  \* history, written and never read by the program
  started,     \* tasks whose task function has been called
  passed,      \* tasks whose promise resolved
  issued,      \* commands spawned, in order
  absorbed,    \* errors that a rejection handler turned into a success
  collab,      \* what the collaborator lookup answered
  tagReply,    \* what the tag lookup answered
  pingReply,   \* how `npm ping` settled
  expired,     \* the deadline of the ping expired
  answers,     \* what each command of this run answered
  \* the environment of a second run on the same closure
  script,      \* the answers the commands are bound to repeat
  run,         \* 1 in the first run of the task list, 2 in the second
  firstOutcome \* the outcome of the first run

vars == <<cfg, newVersion, tagPrefix, cur, pc, outcome, inflight,
          timerArmed, started, issued, username, lookupTag, absorbed,
          collab, tagReply, passed, pingReply, expired, answers, script,
          run, firstOutcome>>

(* ---------------------------- bounds ----------------------------------- *)
\* largest version number of the package descriptor and of an exact input
MaxNum == 1

\* number of tasks in the list
NumChecks == 7

(* ------------------------- version oracle ------------------------------ *)
\* A version is a number and a pre-release flag: 1.0.0-beta < 1.0.0.
Versions == [num : 0..MaxNum, pre : BOOLEAN]

\* `let newVersion = null`
Null == [num |-> -1, pre |-> FALSE]

SEMVER_INCREMENTS == {"patch", "prepatch"}

\* the operator's version request: an increment keyword, an exact version,
\* or something that is neither
Inputs == [kw : SEMVER_INCREMENTS \cup {"bogus"}, ver : {Null}]
            \cup [kw : {"exact"}, ver : Versions]

isValidVersionInput(input) == input.kw \in SEMVER_INCREMENTS \cup {"exact"}

getNewVersion(current, input) ==
  CASE input.kw = "patch" ->
         IF current.pre THEN [num |-> current.num, pre |-> FALSE]
                        ELSE [num |-> current.num + 1, pre |-> FALSE]
    [] input.kw = "prepatch" -> [num |-> current.num + 1, pre |-> TRUE]
    [] OTHER -> input.ver

\* isVersionGreater(a, b): b is strictly greater than a
isVersionGreater(a, b) ==
  \/ b.num > a.num
  \/ b.num = a.num /\ a.pre /\ ~b.pre

isPrereleaseVersion(v) == v.pre

(* ----------------------------- messages -------------------------------- *)
NoText == <<>>

Msg(id) == [id |-> id, prefix |-> "", ver |-> Null, cur |-> Null, text |-> NoText]

PingFailedMsg == Msg("Connection to npm registry failed")

PingTimedOutMsgSame == Msg("Connection to npm registry failed")

PingTimedOutMsg == Msg("Connection to npm registry timed out")

NeedLoginMsg == Msg("You must be logged in to publish packages")

AuthErrorMsg == Msg("Authentication error")

NoWriteMsg == Msg("You do not have write permissions")

InvalidInputMsg == Msg("Version should be either patch, prepatch, or a valid semver version")

NotHigherMsg(nv, cv) == [Msg("New version should be higher than current version")
                           EXCEPT !.ver = nv, !.cur = cv]

NeedTagMsg == Msg("You must specify a dist-tag using --tag")

NpmIssueMsg == Msg("npm has known issues publishing when running Node.js 6")

ParseErrorMsg == Msg("SyntaxError: Unexpected token in JSON")

TagExistsMsgDefault(prefix, ver) ==
  [Msg("Git tag already exists") EXCEPT !.prefix = "v", !.ver = ver]

TagExistsMsg(prefix, ver) ==
  [Msg("Git tag already exists") EXCEPT !.prefix = prefix, !.ver = ver]

CommandFailedMsg(stderr) == [Msg("Command failed") EXCEPT !.text = stderr]

GitRemoteMsg(text) == [Msg("git ls-remote") EXCEPT !.text = text]

NoOutcome == [kind |-> "None", check |-> 0, msg |-> Msg("")]

Success == [kind |-> "Success", check |-> 0, msg |-> Msg("")]

Failure(k, m) == [kind |-> "Failure", check |-> k, msg |-> m]

(* ------------------------------ inputs --------------------------------- *)
Users == {"alice", "bob"}

\* a collaborator's permission string, as a sequence of words
Permissions == {<<"read", "only">>, <<"read", "write">>}

\* the parsed output of `npm access ls-collaborators`: user -> permission
JsonMaps == UNION {[D -> Permissions] : D \in SUBSET Users}

\* stderr of a failed command, as a sequence of words
Stderrs == {<<>>, <<"fatal:", "unable to access">>, <<"npm ERR!", "ENEEDAUTH">>}

\* stdout of a command
Outputs == {"", "abcd1234"}

\* what `npm version --json` may report as the version of npm
NpmVersions == {<<2, 15, 7>>, <<2, 15, 8>>, <<3, 0, 0>>, <<3, 10, 1>>}

\* what `npm config get tag-version-prefix` may print
Prefixes == {"v", "", "rel-"}

\* what a command answered: whether it succeeded, its output, its stderr,
\* and the tag it was asked about
Reply(arg, ok, out, err) == [arg |-> arg, ok |-> ok, out |-> out, err |-> err]

NoAnswers == [c \in {} |-> 0]

\* the output of a command that prints JSON
Json(parses, value) == [parses |-> parses,
                        value |-> IF parses THEN value ELSE <<>>]

NoReply == [status |-> "none", stdout |-> "", stderr |-> <<>>]

NoTag == [prefix |-> "", ver |-> Null]

\* the key of the ping in the answers, which holds how the race between
\* the command and the deadline ended
NoAnswerInTime == "no answer before the deadline"

Configs == [private : BOOLEAN, externalRegistry : BOOLEAN, testEnv : BOOLEAN,
            publish : BOOLEAN, tag : BOOLEAN, yarn : BOOLEAN, node6 : BOOLEAN,
            input : Inputs, version : Versions]

(* --------------------------- initial state ----------------------------- *)
Init ==
  /\ cfg \in Configs
  /\ newVersion = Null
  /\ tagPrefix = "v"
  /\ cur = 1
  /\ pc = "gate"
  /\ outcome = NoOutcome
  /\ inflight = {}
  /\ timerArmed = FALSE
  /\ started = {}
  /\ issued = <<>>
  /\ username = ""
  /\ lookupTag = NoTag
  /\ absorbed = {}
  /\ collab = "none"
  /\ tagReply = NoReply
  /\ passed = {}
  /\ pingReply = "none"
  /\ expired = FALSE
  /\ answers = NoAnswers
  /\ script = NoAnswers
  /\ run = 1
  /\ firstOutcome = NoOutcome

(* ------------------------------ gates ---------------------------------- *)
SkipAlsoValidate(k) ==
  CASE k = 1 -> cfg.private \/ cfg.externalRegistry
    [] k = 2 -> cfg.testEnv \/ cfg.private \/ cfg.externalRegistry
    [] k = 4 -> cfg.private
    [] k = 6 -> ~cfg.node6
    [] OTHER -> FALSE

SkipPrivateOnly(k) ==
  CASE k = 1 -> cfg.private
    [] k = 2 -> cfg.testEnv \/ cfg.private
    [] k = 6 -> ~cfg.node6
    [] OTHER -> FALSE

\* the task's `skip` function
Skip(k) ==
  CASE k = 1 -> cfg.private \/ cfg.externalRegistry
    [] k = 2 -> cfg.testEnv \/ cfg.private \/ cfg.externalRegistry
    [] k = 6 -> ~cfg.node6
    [] OTHER -> FALSE

\* the task's `enabled` function
Enabled(k) ==
  CASE k = 5 -> cfg.publish
    [] OTHER -> TRUE

ExcludedSkipOnly(k) == Skip(k)

\* the runner does not run the task when either gate excludes it
Excluded(k) == Skip(k) \/ ~Enabled(k)

(* ------------------------------ runner --------------------------------- *)
\* the runner moves on to the task after task k, or finishes after the last
Advance(k) ==
  /\ cur' = k + 1
  /\ pc' = IF k = NumChecks THEN "done" ELSE "gate"
  /\ outcome' = IF k = NumChecks /\ outcome = NoOutcome THEN Success ELSE outcome

\* the task's promise resolved
Succeed(k) == Advance(k) /\ passed' = passed \cup {k}

FailWithContinue(k, m) ==
  /\ cur' = k + 1
  /\ pc' = IF k = NumChecks THEN "done" ELSE "gate"
  /\ outcome' = Failure(k, m)
  /\ passed' = passed

\* the task's promise rejected: the run ends, the error is reported with
\* the task
FailWith(k, m) ==
  /\ cur' = k
  /\ pc' = "done"
  /\ outcome' = Failure(k, m)
  /\ passed' = passed

\* the task waits for its next command
Goto(p) == cur' = cur /\ pc' = p /\ outcome' = outcome /\ passed' = passed

\* the runner calls the task function of task k
Begin(k) == pc = "gate" /\ cur = k /\ ~Excluded(k) /\ started' = started \cup {k}

\* execa(...) spawns a command
IssueCmd(c) == issued' = Append(issued, c) /\ inflight' = inflight \cup {c}

\* a command settles and its reaction spawns nothing
Settle(c) == c \in inflight /\ inflight' = inflight \ {c} /\ issued' = issued

\* a command settles and its reaction spawns the next command
SettleThenIssue(c, d) ==
  /\ c \in inflight
  /\ inflight' = (inflight \ {c}) \cup {d}
  /\ issued' = Append(issued, d)

\* command c answers a: the same as in the first run if it is asked the
\* same again; the answer is kept
Answer(c, a) ==
  /\ (c \in DOMAIN script /\ script[c].arg = a.arg) => script[c] = a
  /\ answers' = [k \in DOMAIN answers \cup {c} |->
                   IF k = c THEN a ELSE answers[k]]

\* the runner passes over a task that a gate excludes
SkipCheck ==
  /\ pc = "gate" /\ cur \in 1..NumChecks /\ Excluded(cur)
  /\ Advance(cur)
  /\ UNCHANGED <<cfg, answers, script, run, firstOutcome, pingReply, expired,
                 newVersion, tagPrefix, inflight, timerArmed, started,
                 issued, username, lookupTag, absorbed, collab, tagReply,
                 passed>>

(* ----------------------- 1: Ping npm registry -------------------------- *)
PingStart ==
  /\ Begin(1)
  /\ IssueCmd("npm ping")
  /\ timerArmed' = TRUE
  /\ Goto("ping")
  /\ UNCHANGED <<cfg, answers, script, run, firstOutcome, pingReply, expired,
                 newVersion, tagPrefix, username, lookupTag, absorbed,
                 collab, tagReply>>

\* the command settles before the deadline; pTimeout clears its timer
PingOk ==
  /\ pc = "ping" /\ timerArmed
  /\ Settle("npm ping")
  /\ timerArmed' = FALSE
  /\ Succeed(1)
  /\ pingReply' = "ok"
  /\ Answer("npm ping", Reply(NoTag, TRUE, "", <<>>))
  /\ UNCHANGED <<cfg, script, run, firstOutcome, expired, newVersion,
                 tagPrefix, started, username, lookupTag, absorbed, collab,
                 tagReply>>

PingFail ==
  /\ pc = "ping" /\ timerArmed
  /\ Settle("npm ping")
  /\ timerArmed' = FALSE
  /\ FailWith(1, PingFailedMsg)
  /\ pingReply' = "failed"
  /\ Answer("npm ping", Reply(NoTag, FALSE, "", <<>>))
  /\ UNCHANGED <<cfg, script, run, firstOutcome, expired, newVersion,
                 tagPrefix, started, username, lookupTag, absorbed, collab,
                 tagReply>>

DeadlineSucceeds == Succeed(1)

\* what the expiry of the 15000 ms timer does to the task
DeadlineExpiry == FailWith(1, PingTimedOutMsg)

PingDeadlineNever == FALSE /\ UNCHANGED vars

\* the timer fires first: the task rejects, the command is left running
PingDeadline ==
  /\ pc = "ping" /\ timerArmed
  /\ timerArmed' = FALSE
  /\ DeadlineExpiry
  /\ expired' = TRUE
  /\ Answer("npm ping", Reply(NoTag, FALSE, NoAnswerInTime, <<>>))
  /\ UNCHANGED <<cfg, script, run, firstOutcome, pingReply, newVersion,
                 tagPrefix, inflight, started, issued, username, lookupTag,
                 absorbed, collab, tagReply>>

PingAbandonedSettleReports ==
  /\ pc # "ping"
  /\ Settle("npm ping")
  /\ \E reply \in {"ok", "failed"} :
       /\ pingReply' = reply
       /\ outcome' = IF reply = "failed" THEN Failure(1, PingFailedMsg)
                                         ELSE outcome
  /\ UNCHANGED <<cfg, answers, script, run, firstOutcome, expired,
                 newVersion, tagPrefix, cur, pc, timerArmed, started,
                 username, lookupTag, absorbed, collab, tagReply, passed>>

\* the abandoned command settles later; the settled task ignores it
PingAbandonedSettle ==
  /\ pc # "ping"
  /\ Settle("npm ping")
  /\ pingReply' \in {"ok", "failed"}
  /\ UNCHANGED <<cfg, answers, script, run, firstOutcome, expired,
                 newVersion, tagPrefix, cur, pc, outcome, timerArmed,
                 started, username, lookupTag, absorbed, collab, tagReply,
                 passed>>

(* ------------------- 2: Verify user is authenticated ------------------- *)
\* /ENEEDAUTH/.test(err.stderr)
NeedsAuth(stderr) == \E i \in 1..Len(stderr) : stderr[i] = "ENEEDAUTH"

WhoamiErrorGeneric(stderr) == AuthErrorMsg

WhoamiError(stderr) == IF NeedsAuth(stderr) THEN NeedLoginMsg ELSE AuthErrorMsg

\* permissions.includes('write')
IncludesWrite(permissions) ==
  \E i \in 1..Len(permissions) : permissions[i] = "write"

\* !permissions || !permissions.includes('write')
LacksWrite(json, user) == user \notin DOMAIN json \/ ~IncludesWrite(json[user])

WhoamiStart ==
  /\ Begin(2)
  /\ IssueCmd("npm whoami")
  /\ Goto("whoami")
  /\ UNCHANGED <<cfg, answers, script, run, firstOutcome, pingReply, expired,
                 newVersion, tagPrefix, timerArmed, username, lookupTag,
                 absorbed, collab, tagReply>>

WhoamiOk ==
  /\ pc = "whoami"
  /\ \E u \in Users :
       /\ Answer("npm whoami", Reply(NoTag, TRUE, u, <<>>))
       /\ username' = u
  /\ SettleThenIssue("npm whoami", "npm access ls-collaborators")
  /\ Goto("collaborators")
  /\ UNCHANGED <<cfg, script, run, firstOutcome, pingReply, expired,
                 newVersion, tagPrefix, timerArmed, started, lookupTag,
                 absorbed, collab, tagReply>>

WhoamiFail ==
  /\ pc = "whoami"
  /\ Settle("npm whoami")
  /\ \E stderr \in Stderrs :
       /\ Answer("npm whoami", Reply(NoTag, FALSE, "", stderr))
       /\ FailWith(2, WhoamiError(stderr))
  /\ UNCHANGED <<cfg, script, run, firstOutcome, pingReply, expired,
                 newVersion, tagPrefix, timerArmed, started, username,
                 lookupTag, absorbed, collab, tagReply>>

CollaboratorsCatchRethrows(label, m) ==
  /\ absorbed' = absorbed
  /\ FailWith(2, m)

\* .catch(() => { /* E404 can be safely ignored */ }), chained after the
\* .then that parses the output and tests the permission
CollaboratorsCatch(label, m) ==
  /\ absorbed' = absorbed \cup {label}
  /\ Succeed(2)

\* the lookup prints something: JSON.parse, then the permission test;
\* whatever these throw reaches the .catch that follows them
CollaboratorsOk ==
  /\ pc = "collaborators"
  /\ Settle("npm access ls-collaborators")
  /\ \E parses \in BOOLEAN, json \in JsonMaps :
       /\ Answer("npm access ls-collaborators",
                 Reply(NoTag, TRUE, Json(parses, json), <<>>))
       /\ IF ~parses
            THEN /\ collab' = "unparsable"
                 /\ CollaboratorsCatch("collaborators parse", ParseErrorMsg)
            ELSE IF LacksWrite(json, username)
              THEN /\ collab' = "denied"
                   /\ CollaboratorsCatch("write permission", NoWriteMsg)
              ELSE /\ collab' = "granted"
                   /\ absorbed' = absorbed
                   /\ Succeed(2)
  /\ UNCHANGED <<cfg, script, run, firstOutcome, pingReply, expired,
                 newVersion, tagPrefix, timerArmed, started, username,
                 lookupTag, tagReply>>

CollaboratorsFail ==
  /\ pc = "collaborators"
  /\ Settle("npm access ls-collaborators")
  /\ collab' = "rejected"
  /\ \E stderr \in Stderrs :
       /\ Answer("npm access ls-collaborators",
                 Reply(NoTag, FALSE, Json(FALSE, <<>>), stderr))
       /\ CollaboratorsCatch("collaborators lookup", CommandFailedMsg(stderr))
  /\ UNCHANGED <<cfg, script, run, firstOutcome, pingReply, expired,
                 newVersion, tagPrefix, timerArmed, started, username,
                 lookupTag, tagReply>>

(* ------------------------- 3: Check git remote ------------------------- *)
RECURSIVE ReplaceFirst(_, _, _)
\* String.prototype.replace with a string pattern: the first occurrence
ReplaceFirst(text, word, by) ==
  IF text = <<>> THEN <<>>
  ELSE IF Head(text) = word THEN <<by>> \o Tail(text)
  ELSE <<Head(text)>> \o ReplaceFirst(Tail(text), word, by)

LsRemoteStart ==
  /\ Begin(3)
  /\ IssueCmd("git ls-remote")
  /\ Goto("lsremote")
  /\ UNCHANGED <<cfg, answers, script, run, firstOutcome, pingReply, expired,
                 newVersion, tagPrefix, timerArmed, username, lookupTag,
                 absorbed, collab, tagReply>>

LsRemoteOk ==
  /\ pc = "lsremote"
  /\ Settle("git ls-remote")
  /\ Succeed(3)
  /\ Answer("git ls-remote", Reply(NoTag, TRUE, "", <<>>))
  /\ UNCHANGED <<cfg, script, run, firstOutcome, pingReply, expired,
                 newVersion, tagPrefix, timerArmed, started, username,
                 lookupTag, absorbed, collab, tagReply>>

LsRemoteFail ==
  /\ pc = "lsremote"
  /\ Settle("git ls-remote")
  /\ \E stderr \in Stderrs :
       /\ Answer("git ls-remote", Reply(NoTag, FALSE, "", stderr))
       /\ FailWith(3, GitRemoteMsg(ReplaceFirst(stderr, "fatal:",
                                                "Git fatal error:")))
  /\ UNCHANGED <<cfg, script, run, firstOutcome, pingReply, expired,
                 newVersion, tagPrefix, timerArmed, started, username,
                 lookupTag, absorbed, collab, tagReply>>

(* ------------------------- 4: Validate version ------------------------- *)
ValidateVersionOnce ==
  /\ Begin(4)
  /\ IF newVersion # Null
       THEN /\ newVersion' = newVersion
            /\ Succeed(4)
       ELSE IF ~isValidVersionInput(cfg.input)
         THEN /\ newVersion' = newVersion
              /\ FailWith(4, InvalidInputMsg)
         ELSE /\ newVersion' = getNewVersion(cfg.version, cfg.input)
              /\ IF ~isVersionGreater(cfg.version, newVersion')
                   THEN FailWith(4, NotHigherMsg(newVersion', cfg.version))
                   ELSE Succeed(4)
  /\ UNCHANGED <<cfg, answers, script, run, firstOutcome, pingReply,
                 expired, tagPrefix, inflight, timerArmed, issued, username,
                 lookupTag, absorbed, collab, tagReply>>

ValidateVersionNoGreater ==
  /\ Begin(4)
  /\ IF ~isValidVersionInput(cfg.input)
       THEN /\ newVersion' = newVersion
            /\ FailWith(4, InvalidInputMsg)
       ELSE /\ newVersion' = getNewVersion(cfg.version, cfg.input)
            /\ Succeed(4)
  /\ UNCHANGED <<cfg, answers, script, run, firstOutcome, pingReply, expired,
                 tagPrefix, inflight, timerArmed, issued, username,
                 lookupTag, absorbed, collab, tagReply>>

ValidateVersionStoresLast ==
  /\ Begin(4)
  /\ IF ~isValidVersionInput(cfg.input)
       THEN /\ newVersion' = newVersion
            /\ FailWith(4, InvalidInputMsg)
       ELSE IF ~isVersionGreater(cfg.version, getNewVersion(cfg.version, cfg.input))
         THEN /\ newVersion' = newVersion
              /\ FailWith(4, NotHigherMsg(getNewVersion(cfg.version, cfg.input),
                                          cfg.version))
         ELSE /\ newVersion' = getNewVersion(cfg.version, cfg.input)
              /\ Succeed(4)
  /\ UNCHANGED <<cfg, answers, script, run, firstOutcome, pingReply, expired,
                 tagPrefix, inflight, timerArmed, issued, username,
                 lookupTag, absorbed, collab, tagReply>>

\* the task function is synchronous: it runs to its end in the turn in
\* which the runner calls it
ValidateVersion ==
  /\ Begin(4)
  /\ IF ~isValidVersionInput(cfg.input)
       THEN /\ newVersion' = newVersion
            /\ FailWith(4, InvalidInputMsg)
       ELSE /\ newVersion' = getNewVersion(cfg.version, cfg.input)
            /\ IF ~isVersionGreater(cfg.version, newVersion')
                 THEN FailWith(4, NotHigherMsg(newVersion', cfg.version))
                 ELSE Succeed(4)
  /\ UNCHANGED <<cfg, answers, script, run, firstOutcome, pingReply, expired,
                 tagPrefix, inflight, timerArmed, issued, username,
                 lookupTag, absorbed, collab, tagReply>>

(* ------------------- 5: Check for pre-release version ------------------ *)
PrereleaseCheckIgnoresTag ==
  /\ Begin(5)
  /\ IF ~cfg.private /\ isPrereleaseVersion(newVersion)
       THEN FailWith(5, NeedTagMsg)
       ELSE Succeed(5)
  /\ UNCHANGED <<cfg, answers, script, run, firstOutcome, pingReply, expired,
                 newVersion, tagPrefix, inflight, timerArmed, issued,
                 username, lookupTag, absorbed, collab, tagReply>>

PrereleaseCheckStrips ==
  /\ Begin(5)
  /\ IF ~cfg.private /\ isPrereleaseVersion(newVersion) /\ ~cfg.tag
       THEN FailWith(5, NeedTagMsg) /\ newVersion' = newVersion
       ELSE Succeed(5) /\ newVersion' = [newVersion EXCEPT !.pre = FALSE]
  /\ UNCHANGED <<cfg, answers, script, run, firstOutcome, pingReply, expired,
                 tagPrefix, inflight, timerArmed, issued, username,
                 lookupTag, absorbed, collab, tagReply>>

PrereleaseCheck ==
  /\ Begin(5)
  /\ IF ~cfg.private /\ isPrereleaseVersion(newVersion) /\ ~cfg.tag
       THEN FailWith(5, NeedTagMsg)
       ELSE Succeed(5)
  /\ UNCHANGED <<cfg, answers, script, run, firstOutcome, pingReply, expired,
                 newVersion, tagPrefix, inflight, timerArmed, issued,
                 username, lookupTag, absorbed, collab, tagReply>>

(* ------------------------- 6: Check npm version ------------------------ *)
\* a < b for versions written as <<major, minor, patch>>
Lower(a, b) ==
  \/ a[1] < b[1]
  \/ a[1] = b[1] /\ a[2] < b[2]
  \/ a[1] = b[1] /\ a[2] = b[2] /\ a[3] < b[3]

\* version.satisfies(versions.npm, '>=2.15.8 <3.0.0 || >=3.10.1')
SatisfiesNpmRange(v) ==
  \/ ~Lower(v, <<2, 15, 8>>) /\ Lower(v, <<3, 0, 0>>)
  \/ ~Lower(v, <<3, 10, 1>>)

NpmVersionStart ==
  /\ Begin(6)
  /\ IssueCmd("npm version")
  /\ Goto("npmversion")
  /\ UNCHANGED <<cfg, answers, script, run, firstOutcome, pingReply, expired,
                 newVersion, tagPrefix, timerArmed, username, lookupTag,
                 absorbed, collab, tagReply>>

NpmVersionOk ==
  /\ pc = "npmversion"
  /\ Settle("npm version")
  /\ \E parses \in BOOLEAN, npm \in NpmVersions :
       /\ Answer("npm version", Reply(NoTag, TRUE, Json(parses, npm), <<>>))
       /\ IF ~parses THEN FailWith(6, ParseErrorMsg)
          ELSE IF ~SatisfiesNpmRange(npm) THEN FailWith(6, NpmIssueMsg)
          ELSE Succeed(6)
  /\ UNCHANGED <<cfg, script, run, firstOutcome, pingReply, expired,
                 newVersion, tagPrefix, timerArmed, started, username,
                 lookupTag, absorbed, collab, tagReply>>

NpmVersionFail ==
  /\ pc = "npmversion"
  /\ Settle("npm version")
  /\ \E stderr \in Stderrs :
       /\ Answer("npm version", Reply(NoTag, FALSE, Json(FALSE, <<>>), stderr))
       /\ FailWith(6, CommandFailedMsg(stderr))
  /\ UNCHANGED <<cfg, script, run, firstOutcome, pingReply, expired,
                 newVersion, tagPrefix, timerArmed, started, username,
                 lookupTag, absorbed, collab, tagReply>>

(* ---------------------- 7: Check git tag existence --------------------- *)
\* the command that asks the package manager in use for its tag prefix
PrefixCmd == IF cfg.yarn THEN "yarn config get version-tag-prefix"
                         ELSE "npm config get tag-version-prefix"

\* `refs/tags/${tagPrefix}${newVersion}`
TagName(prefix, ver) == [prefix |-> prefix, ver |-> ver]

RethrowsOnStdoutOnly(stdout, stderr) == stdout # ""

\* err.stdout !== '' || err.stderr !== ''
Rethrows(stdout, stderr) == stdout # "" \/ stderr # <<>>

FetchStart ==
  /\ Begin(7)
  /\ IssueCmd("git fetch")
  /\ Goto("fetch")
  /\ UNCHANGED <<cfg, answers, script, run, firstOutcome, pingReply, expired,
                 newVersion, tagPrefix, timerArmed, username, lookupTag,
                 absorbed, collab, tagReply>>

FetchOk ==
  /\ pc = "fetch"
  /\ SettleThenIssue("git fetch", PrefixCmd)
  /\ Goto("prefix")
  /\ Answer("git fetch", Reply(NoTag, TRUE, "", <<>>))
  /\ UNCHANGED <<cfg, script, run, firstOutcome, pingReply, expired,
                 newVersion, tagPrefix, timerArmed, started, username,
                 lookupTag, absorbed, collab, tagReply>>

\* a rejected fetch skips the prefix query and reaches the rejection
\* handler `() => {}` of the .then that stores the prefix; the chain goes
\* on with the tag lookup
FetchFail ==
  /\ pc = "fetch"
  /\ SettleThenIssue("git fetch", "git rev-parse")
  /\ absorbed' = absorbed \cup {"git fetch"}
  /\ lookupTag' = TagName(tagPrefix, newVersion)
  /\ Goto("revparse")
  /\ Answer("git fetch", Reply(NoTag, FALSE, "", <<>>))
  /\ UNCHANGED <<cfg, script, run, firstOutcome, pingReply, expired,
                 newVersion, tagPrefix, timerArmed, started, username,
                 collab, tagReply>>

PrefixOk ==
  /\ pc = "prefix"
  /\ SettleThenIssue(PrefixCmd, "git rev-parse")
  /\ \E output \in Prefixes :
       /\ Answer(PrefixCmd, Reply(NoTag, TRUE, output, <<>>))
       /\ tagPrefix' = output
       /\ lookupTag' = TagName(output, newVersion)
  /\ Goto("revparse")
  /\ UNCHANGED <<cfg, script, run, firstOutcome, pingReply, expired,
                 newVersion, timerArmed, started, username, absorbed, collab,
                 tagReply>>

PrefixFailAborts ==
  /\ pc = "prefix"
  /\ Settle(PrefixCmd)
  /\ Answer(PrefixCmd, Reply(NoTag, FALSE, "", <<>>))
  /\ \E stderr \in Stderrs : FailWith(7, CommandFailedMsg(stderr))
  /\ UNCHANGED <<cfg, script, run, firstOutcome, pingReply, expired,
                 newVersion, tagPrefix, timerArmed, started, username,
                 lookupTag, absorbed, collab, tagReply>>

PrefixFail ==
  /\ pc = "prefix"
  /\ SettleThenIssue(PrefixCmd, "git rev-parse")
  /\ absorbed' = absorbed \cup {"prefix query"}
  /\ lookupTag' = TagName(tagPrefix, newVersion)
  /\ Goto("revparse")
  /\ Answer(PrefixCmd, Reply(NoTag, FALSE, "", <<>>))
  /\ UNCHANGED <<cfg, script, run, firstOutcome, pingReply, expired,
                 newVersion, tagPrefix, timerArmed, started, username,
                 collab, tagReply>>

RevParseOk ==
  /\ pc = "revparse"
  /\ Settle("git rev-parse")
  /\ \E output \in Outputs :
       /\ Answer("git rev-parse", Reply(lookupTag, TRUE, output, <<>>))
       /\ tagReply' = [status |-> "ok", stdout |-> output, stderr |-> <<>>]
       /\ IF output # ""
            THEN FailWith(7, TagExistsMsg(tagPrefix, newVersion))
            ELSE Succeed(7)
  /\ UNCHANGED <<cfg, script, run, firstOutcome, pingReply, expired,
                 newVersion, tagPrefix, timerArmed, started, username,
                 lookupTag, absorbed, collab>>

RevParseFail ==
  /\ pc = "revparse"
  /\ Settle("git rev-parse")
  /\ \E stdout \in Outputs, stderr \in Stderrs :
       /\ Answer("git rev-parse", Reply(lookupTag, FALSE, stdout, stderr))
       /\ tagReply' = [status |-> "failed", stdout |-> stdout, stderr |-> stderr]
       /\ IF Rethrows(stdout, stderr)
            THEN /\ absorbed' = absorbed
                 /\ FailWith(7, CommandFailedMsg(stderr))
            ELSE /\ absorbed' = absorbed \cup {"tag lookup"}
                 /\ Succeed(7)
  /\ UNCHANGED <<cfg, script, run, firstOutcome, pingReply, expired,
                 newVersion, tagPrefix, timerArmed, started, username,
                 lookupTag, collab>>

(* --------------------------- specification ----------------------------- *)
Next ==
  \/ SkipCheck
  \/ PingStart \/ PingOk \/ PingFail \/ PingDeadline \/ PingAbandonedSettle
  \/ WhoamiStart \/ WhoamiOk \/ WhoamiFail
  \/ CollaboratorsOk \/ CollaboratorsFail
  \/ LsRemoteStart \/ LsRemoteOk \/ LsRemoteFail
  \/ ValidateVersion
  \/ PrereleaseCheck
  \/ NpmVersionStart \/ NpmVersionOk \/ NpmVersionFail
  \/ FetchStart \/ FetchOk \/ FetchFail \/ PrefixOk \/ PrefixFail
  \/ RevParseOk \/ RevParseFail

Spec == Init /\ [][Next]_vars

(* ------------------------------ fairness ------------------------------- *)
\* what the runner does by itself: pass over a task, call a task function
RunnerStep ==
  \/ SkipCheck
  \/ PingStart \/ WhoamiStart \/ LsRemoteStart \/ ValidateVersion
  \/ PrereleaseCheck \/ NpmVersionStart \/ FetchStart

\* a command of tasks 2, 3, 6 or 7 settles
CommandSettles ==
  \/ WhoamiOk \/ WhoamiFail \/ CollaboratorsOk \/ CollaboratorsFail
  \/ LsRemoteOk \/ LsRemoteFail
  \/ NpmVersionOk \/ NpmVersionFail
  \/ FetchOk \/ FetchFail \/ PrefixOk \/ PrefixFail
  \/ RevParseOk \/ RevParseFail

\* the event loop runs what is ready and fires a timer that is due; the
\* commands of tasks 2, 3, 6 and 7 settle; `npm ping` need not
SpecFair ==
  /\ Init /\ [][Next]_vars
  /\ WF_vars(RunnerStep)
  /\ WF_vars(PingDeadline)
  /\ WF_vars(CommandSettles)

(* --------------------- a second run of the task list ------------------- *)
\* the name under which a ping abandoned by the first run is kept
PreviousPing == "npm ping (first run)"

\* the task list is run again once its first run is over: the closure
\* keeps newVersion and tagPrefix, and every command that is asked the
\* same again answers as it did
Rerun ==
  /\ run = 1 /\ pc = "done"
  /\ run' = 2
  /\ firstOutcome' = outcome
  /\ script' = answers
  /\ answers' = NoAnswers
  /\ cur' = 1 /\ pc' = "gate" /\ outcome' = NoOutcome
  /\ inflight' = IF "npm ping" \in inflight THEN {PreviousPing} ELSE {}
  /\ started' = {} /\ passed' = {} /\ issued' = <<>> /\ absorbed' = {}
  /\ collab' = "none" /\ tagReply' = NoReply /\ lookupTag' = NoTag
  /\ pingReply' = "none" /\ expired' = FALSE /\ username' = ""
  /\ UNCHANGED <<cfg, newVersion, tagPrefix, timerArmed>>

\* the ping abandoned by the first run settles during the second
PreviousPingSettle ==
  /\ PreviousPing \in inflight
  /\ inflight' = inflight \ {PreviousPing}
  /\ UNCHANGED <<cfg, answers, script, run, firstOutcome, pingReply,
                 expired, newVersion, tagPrefix, cur, pc, outcome,
                 timerArmed, started, issued, username, lookupTag, absorbed,
                 collab, tagReply, passed>>

NextRerun == Next \/ Rerun \/ PreviousPingSettle

\* the closures that are run twice: npm as the package manager and the
\* default registry (opts.yarn only renames the prefix query, and an
\* external registry skips tasks 1 and 2 as a private package does)
InitRerun == Init /\ ~cfg.yarn /\ ~cfg.externalRegistry

SpecRerun == InitRerun /\ [][NextRerun]_vars

TypeOK ==
  /\ cfg \in Configs
  /\ cur \in 1..(NumChecks + 1)
  /\ outcome.kind \in {"None", "Success", "Failure"}
  /\ started \subseteq 1..NumChecks
  /\ passed \subseteq started

(* ------------------------- observed quantities ------------------------- *)
\* the commands a task spawns
CmdsOf(k) ==
  CASE k = 1 -> {"npm ping"}
    [] k = 2 -> {"npm whoami", "npm access ls-collaborators"}
    [] k = 3 -> {"git ls-remote"}
    [] k = 6 -> {"npm version"}
    [] k = 7 -> {"git fetch", "yarn config get version-tag-prefix",
                 "npm config get tag-version-prefix", "git rev-parse"}
    [] OTHER -> {}

IssuedCmds == {issued[i] : i \in 1..Len(issued)}

FailedAt(k) == outcome.kind = "Failure" /\ outcome.check = k

\* the tasks whose action has been called and has not settled
Executing == {k \in started : k \notin passed /\ ~FailedAt(k)}

\* the ping command left running by an expired deadline
PingAbandoned == "npm ping" \in inflight /\ pc # "ping"

(* ------------------------------- C1 ------------------------------------ *)
C1_AtFailure ==
  outcome.kind = "Failure" =>
    /\ pc = "done"
    /\ outcome.check = cur
    /\ cur \in started /\ cur \notin passed
    /\ \A j \in started : j <= cur
    /\ \A j \in (cur + 1)..NumChecks : CmdsOf(j) \cap IssuedCmds = {}
    /\ outcome.msg.id # ""

C1_AfterFailure ==
  outcome.kind = "Failure" =>
    outcome' = outcome /\ started' = started /\ issued' = issued /\ cur' = cur

\* C1: once the action of a check fails, no later check is started and no
\* further command is issued; the outcome is the Failure of that first
\* failing check with its message, and it stays so.
C1_FirstFailureStops == []C1_AtFailure /\ [][C1_AfterFailure]_vars

C1_Witness == FailedAt(3) /\ 1 \in passed /\ 2 \in passed /\ pc = "done"

(* ------------------------------- C2 ------------------------------------ *)
C2_Gated(k) == Skip(k) \/ ~Enabled(k)

C2_NeverRuns ==
  \A k \in 1..NumChecks :
    C2_Gated(k) =>
      /\ k \notin started
      /\ CmdsOf(k) \cap IssuedCmds = {}
      /\ ~FailedAt(k)

C2_Continues ==
  (pc = "gate" /\ cur \in 1..NumChecks /\ C2_Gated(cur)) =>
    /\ cur' = cur + 1
    /\ outcome'.kind # "Failure"
    /\ started' = started /\ issued' = issued
    /\ pc' = IF cur = NumChecks THEN "done" ELSE "gate"

\* C2: a check whose skip predicate is true or whose enabled predicate is
\* false never has its action invoked, issues no command and contributes no
\* failure; the runner goes on with the next check.
C2_GatedChecksDoNotRun == []C2_NeverRuns /\ [][C2_Continues]_vars

C2_Witness ==
  /\ ~cfg.publish /\ cfg.private /\ ~cfg.node6
  /\ outcome = Success /\ passed = {3, 4, 7}

(* ------------------------------- C3 ------------------------------------ *)
\* C3: whenever the action of check 5 or of check 7 has been entered,
\* newVersion is set and check 4 has completed successfully in this run;
\* check 4 is never passed over.
C3_NewVersionSet ==
  /\ (5 \in started \/ 7 \in started) =>
       /\ newVersion # Null
       /\ newVersion = getNewVersion(cfg.version, cfg.input)
       /\ 4 \in passed
  /\ cur > 4 => 4 \in started

C3_Witness == pc = "revparse" /\ 5 \in passed /\ 7 \in Executing

(* ------------------------------- C4 ------------------------------------ *)
C4_OneAtATime ==
  /\ Cardinality(Executing) <= 1
  /\ Cardinality(inflight) <= 1
  /\ inflight # {} /\ ~PingAbandoned => inflight \subseteq CmdsOf(cur)

C4_Sequential ==
  /\ started' # started => inflight = {} /\ Executing = {}
  /\ issued' # issued => inflight = {} \/ (inflight' \cap inflight = {})
  /\ PingAbandoned => issued' = issued /\ started' = started

\* C4: at most one check action is executing and at most one command is in
\* flight; an action starts only when the previous one has settled, a
\* command is issued only when the previous one has settled, and nothing is
\* started after a ping deadline expiry.
C4_NoConcurrency == []C4_OneAtATime /\ [][C4_Sequential]_vars

C4_Witness == PingAbandoned /\ expired /\ FailedAt(1)

(* ------------------------------- C5 ------------------------------------ *)
\* C5: when `whoami` succeeds and the collaborator lookup succeeds with a
\* mapping in which the user is absent or lacks "write", the outcome is a
\* Failure at check 2 with the write-permission message.
C5_DeniedFails ==
  collab = "denied" =>
    /\ FailedAt(2)
    /\ outcome.msg.id = "You do not have write permissions"

(* ------------------------------- C6 ------------------------------------ *)
\* C6: a failure is absorbed only in the two allow-listed cases, the
\* collaborator lookup rejecting and the tag lookup failing with empty
\* stdout and stderr; every other error, a failed fetch included, makes the
\* outcome a Failure at the owning check.
C6_OnlyAllowListed ==
  /\ absorbed \subseteq {"collaborators lookup", "tag lookup"}
  /\ "tag lookup" \in absorbed => tagReply.stdout = "" /\ tagReply.stderr = <<>>

(* ------------------------------- C7 ------------------------------------ *)
C7_EmptyFailure == tagReply.stdout = "" /\ tagReply.stderr = <<>>

\* C7: when the tag lookup fails, check 7 succeeds exactly if the failure
\* carries empty stdout and empty stderr; otherwise the error is re-raised
\* and the outcome is a Failure at check 7.
C7_TagLookupFailure ==
  tagReply.status = "failed" =>
    /\ 7 \in passed <=> C7_EmptyFailure
    /\ C7_EmptyFailure => outcome = Success
    /\ ~C7_EmptyFailure =>
         /\ FailedAt(7)
         /\ outcome.msg.id = "Command failed"
         /\ outcome.msg.text = tagReply.stderr

C7_Witness ==
  /\ tagReply.status = "failed"
  /\ tagReply.stdout = "" /\ tagReply.stderr # <<>>
  /\ FailedAt(7)

(* ------------------------------- C8 ------------------------------------ *)
\* C8: when the tag lookup succeeds with non-empty output, check 7 fails
\* with the 'already exists' message naming the tag that was looked up,
\* made of the prefix resolved in this run (or "v") and newVersion; with
\* empty output check 7 succeeds.
C8_TagExists ==
  tagReply.status = "ok" =>
    /\ lookupTag = [prefix |-> tagPrefix, ver |-> newVersion]
    /\ newVersion = getNewVersion(cfg.version, cfg.input)
    /\ absorbed \cap {"git fetch", "prefix query"} # {} => lookupTag.prefix = "v"
    /\ tagReply.stdout # "" =>
         /\ FailedAt(7)
         /\ outcome.msg.id = "Git tag already exists"
         /\ outcome.msg.prefix = lookupTag.prefix
         /\ outcome.msg.ver = lookupTag.ver
    /\ tagReply.stdout = "" => 7 \in passed /\ outcome = Success

C8_Witness ==
  /\ tagReply.status = "ok" /\ tagReply.stdout # ""
  /\ lookupTag.prefix = "rel-"
  /\ FailedAt(7)

(* ------------------------------- C9 ------------------------------------ *)
\* C9: when `whoami` succeeds and the collaborator lookup rejects, the
\* error is swallowed: check 2 succeeds and the runner is at check 3.
C9_LookupRejectionSwallowed ==
  collab = "rejected" =>
    /\ 2 \in passed
    /\ ~FailedAt(2)
    /\ "npm whoami" \in IssuedCmds /\ username \in Users
    /\ cur >= 3
    /\ 3 \in started \/ (cur = 3 /\ pc = "gate" /\ outcome = NoOutcome)

C9_Witness == collab = "rejected" /\ 3 \in passed /\ outcome = NoOutcome

(* ------------------------------- C10 ----------------------------------- *)
\* C10: check 1 fails with the 'timed out' message when the deadline
\* expires before the ping settles and with the 'failed' message when the
\* ping fails before the deadline; the messages differ and both give an
\* ordinary Failure at check 1.
C10_PingFailures ==
  /\ expired =>
       /\ outcome.kind = "Failure" /\ outcome.check = 1 /\ pc = "done"
       /\ outcome.msg = Msg("Connection to npm registry timed out")
  /\ pingReply = "failed" /\ ~expired =>
       /\ outcome.kind = "Failure" /\ outcome.check = 1 /\ pc = "done"
       /\ outcome.msg = Msg("Connection to npm registry failed")
  /\ pingReply = "ok" /\ ~expired => 1 \in passed

C10_Witness == expired /\ pingReply = "failed" /\ FailedAt(1)

(* ------------------------------- C11 ----------------------------------- *)
C11_Computed == getNewVersion(cfg.version, cfg.input)

C11_Acceptable ==
  /\ isValidVersionInput(cfg.input)
  /\ isVersionGreater(cfg.version, C11_Computed)

\* C11: at a Success newVersion is set, is what the oracle computes from
\* the current version and the input, and is strictly greater than the
\* current version; an invalid input or a version that is not greater
\* makes the outcome a Failure at check 4 unless checks 1-3 failed first.
C11_ValidatedVersion ==
  /\ outcome = Success =>
       /\ newVersion # Null
       /\ newVersion = C11_Computed
       /\ isVersionGreater(cfg.version, newVersion)
       /\ isValidVersionInput(cfg.input)
  /\ (4 \in started /\ ~C11_Acceptable) =>
       /\ FailedAt(4)
       /\ outcome.msg =
            IF ~isValidVersionInput(cfg.input)
              THEN Msg("Version should be either patch, prepatch, or a valid semver version")
              ELSE [Msg("New version should be higher than current version")
                      EXCEPT !.ver = C11_Computed, !.cur = cfg.version]
  /\ (pc = "done" /\ ~C11_Acceptable) => \E k \in 1..4 : FailedAt(k)

C11_Witness ==
  /\ FailedAt(4) /\ 3 \in passed
  /\ cfg.input.kw = "exact" /\ cfg.input.ver = cfg.version

(* ------------------------------- C12 ----------------------------------- *)
C12_MustFail ==
  /\ cfg.publish /\ ~cfg.private /\ ~cfg.tag
  /\ isPrereleaseVersion(newVersion)

\* C12: once check 5 has been reached and is over, it has failed exactly
\* if publish is requested, the package is not private, newVersion is a
\* pre-release and no dist-tag was given.
C12_PrereleaseNeedsTag ==
  /\ (cur > 5 \/ (cur = 5 /\ pc = "done")) => (FailedAt(5) <=> C12_MustFail)
  /\ (~cfg.publish \/ cfg.private \/ cfg.tag) => ~FailedAt(5)

C12_Witness == FailedAt(5) /\ cfg.input.kw = "prepatch" /\ 4 \in passed

(* ------------------------------- C14 ----------------------------------- *)
\* C14 as stated: a failing check leaves newVersion and tagPrefix as they
\* were: unset at a Failure at check 4, the initial "v" at a Failure at
\* check 7.
C14_FailureLeavesContext ==
  /\ FailedAt(4) => newVersion = Null
  /\ FailedAt(7) => tagPrefix = "v"

\* C14 amended: newVersion is written only by check 4 and tagPrefix only
\* by check 7, each before the check's last test.  At a Failure at check 4
\* newVersion is unset if the input was invalid and holds the computed
\* version if that version was not greater; at a Failure at check 7
\* tagPrefix holds the output of the prefix query if that query succeeded
\* and "v" otherwise.
C14_WritesBeforeLastTest ==
  /\ FailedAt(4) =>
       newVersion = IF isValidVersionInput(cfg.input)
                      THEN getNewVersion(cfg.version, cfg.input) ELSE Null
  /\ FailedAt(7) =>
       /\ tagPrefix = lookupTag.prefix
       /\ tagPrefix \in Prefixes
       /\ absorbed \cap {"git fetch", "prefix query"} # {} => tagPrefix = "v"
  /\ 4 \notin started => newVersion = Null
  /\ 7 \notin started => tagPrefix = "v"

C14_Witness ==
  /\ FailedAt(4) /\ newVersion # Null /\ newVersion = cfg.version

(* ------------------------------- C15 ----------------------------------- *)
C15_WrittenOnce ==
  newVersion' # newVersion =>
    /\ newVersion = Null
    /\ pc = "gate" /\ cur = 4
    /\ 4 \notin started /\ 4 \in started'

\* C15: in one run newVersion is written at most once, by the action of
\* check 4 and by no other, and keeps its value afterwards.
C15_SingleWriter ==
  /\ [][C15_WrittenOnce]_vars
  /\ [](4 \notin started => newVersion = Null)

C15_Witness ==
  /\ newVersion # Null /\ 5 \in passed /\ 7 \in passed
  /\ cfg.tag /\ isPrereleaseVersion(newVersion)

(* ------------------------------- C16 ----------------------------------- *)
C16_BeforeQuery == cur < NumChecks \/ pc \in {"gate", "fetch", "prefix"}

C16_Written ==
  tagPrefix' # tagPrefix =>
    /\ pc = "prefix" /\ pc' = "revparse"
    /\ tagPrefix' \in Prefixes
    /\ PrefixCmd \notin DOMAIN answers

C16_Resolved == PrefixCmd \in DOMAIN answers /\ answers[PrefixCmd].ok

C16_QueryFailed ==
  (PrefixCmd \in DOMAIN answers /\ ~answers[PrefixCmd].ok) =>
    /\ tagPrefix = "v"
    /\ "git rev-parse" \in IssuedCmds
    /\ lookupTag = [prefix |-> "v", ver |-> newVersion]
    /\ FailedAt(7) => tagReply.status # "none"

\* C16: tagPrefix is "v" until the prefix query of check 7 succeeds and is
\* written only then, to the output of the query; when the query fails
\* tagPrefix stays "v", check 7 does not fail for it and the lookup is
\* issued for v{newVersion}.
C16_DefaultPrefix ==
  /\ [](C16_BeforeQuery => tagPrefix = "v")
  /\ [](tagPrefix = IF C16_Resolved THEN answers[PrefixCmd].out ELSE "v")
  /\ [][C16_Written]_vars
  /\ []C16_QueryFailed

C16_Witness ==
  /\ PrefixCmd \in DOMAIN answers /\ ~answers[PrefixCmd].ok /\ 7 \in passed
  /\ lookupTag.prefix = "v" /\ tagReply.status = "failed"

(* ------------------------------- C17 ----------------------------------- *)
\* C17: with a private package or an external registry no ping, whoami or
\* collaborator lookup is ever issued, and in test mode no whoami or
\* collaborator lookup; checks 1 and 2 (check 2) are then never the
\* failing check.
C17_RegistryChecksSkipped ==
  /\ (cfg.private \/ cfg.externalRegistry) =>
       /\ IssuedCmds \cap {"npm ping", "npm whoami",
                           "npm access ls-collaborators"} = {}
       /\ ~FailedAt(1) /\ ~FailedAt(2)
       /\ started \cap {1, 2} = {}
  /\ cfg.testEnv =>
       /\ IssuedCmds \cap {"npm whoami", "npm access ls-collaborators"} = {}
       /\ ~FailedAt(2)
       /\ 2 \notin started

C17_Witness ==
  /\ cfg.externalRegistry /\ ~cfg.private /\ ~cfg.testEnv
  /\ 3 \in started /\ issued = <<"git ls-remote">>

(* ------------------------------- C19 ----------------------------------- *)
C19_Settled == 1 \in passed \/ FailedAt(1)

C19_Frozen ==
  /\ expired =>
       /\ outcome' = outcome /\ cur' = cur /\ pc' = pc
       /\ started' = started /\ issued' = issued /\ passed' = passed
  /\ C19_Settled =>
       /\ expired' = expired /\ ~timerArmed'
       /\ (1 \in passed) = (1 \in passed')
       /\ FailedAt(1) => outcome' = outcome

\* C19: after the deadline has expired the outcome is the timeout Failure
\* at check 1 and a later settlement of the abandoned ping changes neither
\* it nor anything else of the run; once the ping has settled first, no
\* deadline expiry follows and the result of check 1 stays.
C19_RaceDecidedOnce ==
  /\ [](expired => outcome = Failure(1, Msg("Connection to npm registry timed out")))
  /\ [][C19_Frozen]_vars

C19_Witness ==
  /\ expired /\ pingReply = "ok" /\ inflight = {}
  /\ outcome = Failure(1, Msg("Connection to npm registry timed out"))

(* ------------------------------- C13 ----------------------------------- *)
\* C13: a second run on the same closure, in which every command answers
\* as in the first run, ends with the outcome of the first run, although
\* newVersion and tagPrefix of the first run are still there.
C13_SameOutcome ==
  run = 2 =>
    /\ outcome # NoOutcome => outcome = firstOutcome
    /\ pc = "done" => outcome = firstOutcome
    /\ pc = "done" => answers = script

C13_Witness ==
  /\ run = 2 /\ pc = "done"
  /\ FailedAt(7) /\ outcome = firstOutcome
  /\ tagPrefix = "rel-" /\ newVersion # Null
  /\ script["git rev-parse"].arg.prefix = "rel-"

(* ------------------------------- C18 ----------------------------------- *)
C18_Whoami == answers["npm whoami"]

\* C18: the collaborator lookup is issued only after `whoami` has
\* succeeded; when `whoami` fails the lookup is never issued and the
\* outcome is a Failure at check 2, with the log-in message if the error
\* carries ENEEDAUTH and the generic authentication message otherwise, and
\* the catch of the lookup does not absorb it.
C18_WhoamiFirst ==
  /\ "npm access ls-collaborators" \in IssuedCmds =>
       /\ "npm whoami" \in DOMAIN answers
       /\ C18_Whoami.ok
       /\ username = C18_Whoami.out
       /\ issued[Len(issued)] # "npm whoami"
  /\ ("npm whoami" \in DOMAIN answers /\ ~C18_Whoami.ok) =>
       /\ "npm access ls-collaborators" \notin IssuedCmds
       /\ FailedAt(2) /\ 2 \notin passed /\ absorbed = {}
       /\ outcome.msg.id =
            IF \E i \in 1..Len(C18_Whoami.err) : C18_Whoami.err[i] = "ENEEDAUTH"
              THEN "You must be logged in to publish packages"
              ELSE "Authentication error"

C18_Witness ==
  /\ "npm whoami" \in DOMAIN answers /\ ~C18_Whoami.ok
  /\ outcome.msg.id = "You must be logged in to publish packages"
  /\ 1 \in passed

(* ------------------------------- C20 ----------------------------------- *)
\* the running task waits for a command of check 2, 3, 6 or 7
C20_Waiting ==
  pc \in {"whoami", "collaborators", "lsremote", "npmversion", "fetch",
          "prefix", "revparse"}

C20_OnlyTheCommand ==
  C20_Waiting => Cardinality(inflight) = 1 /\ inflight \cap inflight' = {}

\* C20: check 1 always settles, by its deadline if the ping never does;
\* the run reaches an outcome if the commands of checks 2, 3, 6 and 7
\* settle; no deadline guards those commands: while one of them is
\* pending there is no outcome and nothing but its settlement can happen.
C20_Termination ==
  /\ (pc = "ping") ~> (pc # "ping" /\ (1 \in passed \/ FailedAt(1)))
  /\ <>(pc = "done" /\ outcome # NoOutcome)
  /\ [](C20_Waiting => outcome = NoOutcome /\ ~timerArmed)
  /\ [][C20_OnlyTheCommand]_vars

C20_Witness == expired /\ pingReply = "none" /\ "npm ping" \in inflight /\ pc = "done"

====
